---- MODULE Spec2Model ----
(***************************************************************************)
(* Model of the VRse FBX batch exporter (VRseFbx_BatchExporter.py).         *)
(*                                                                         *)
(* Paths are sequences of segments below the filesystem (or drive) root:   *)
(* "/" is <<>>, "/out/A" is <<"out","A">> and a trailing separator is an   *)
(* empty last segment, "/out/" is <<"out","">>.  Collections and objects   *)
(* are identified by their names, which the host keeps unique.             *)
(***************************************************************************)
EXTENDS Integers, Sequences, FiniteSets, TLC

VARIABLES
    children,       \* collection.children, in order; children[Master] are the scene's root links
    members,        \* collection.objects, in order
    lcHide,         \* layer collections (paths of names below the root one) with hide_viewport set
    collHide,       \* collections with hide_viewport set
    objType,        \* object.type
    objHide,        \* objects with hide_viewport set
    viewObjs,       \* context.view_layer.objects
    props,          \* scene.vrsefbx_exporter options
    exported_files, \* props.exported_files
    selected,       \* context.selected_objects
    active,         \* context.active_object
    imode,          \* bpy.context.mode
    fs,             \* directories that exist
    platform,       \* platform.system()
    directory,      \* the operator's directory property
    pending,        \* the file browser opened by invoke is waiting
    runs,           \* number of handler calls so far
    last            \* what the most recent call did (history)

vars == <<children, members, lcHide, collHide, objType, objHide,
          viewObjs, props, exported_files, selected, active, imode, fs,
          platform, directory, pending, runs, last>>

sceneVars == <<children, members, lcHide, collHide, objType,
               objHide, viewObjs>>

None == "None"

\* The collections and objects of the scene, in the host's native order
Master == "Scene Collection"
CollOrder == <<"A", "B", "C">>
Colls == {"A", "B", "C"}
AllColls == Colls \cup {Master}
ObjOrder == <<"X", "Y", "Z">>
Objs == {"X", "Y", "Z"}

\* ---------------------------------------------------------------------------
\* Generic helpers
\* ---------------------------------------------------------------------------
Range(s) == {s[i] : i \in 1..Len(s)}

RECURSIVE SetToSeq(_, _)
\* the members of S in the order of the sequence ord
SetToSeq(S, ord) ==
    IF ord = <<>> THEN <<>>
    ELSE (IF Head(ord) \in S THEN <<Head(ord)>> ELSE <<>>) \o SetToSeq(S, Tail(ord))

Perms(S) == {p \in [1..Cardinality(S) -> S] : \A i, j \in 1..Cardinality(S) : p[i] = p[j] => i = j}

Prefixes(p) == {SubSeq(p, 1, n) : n \in 0..Len(p)}

\* F applied to the value of x, which is computed once (a local variable)
Bind(x, F(_)) == CHOOSE y \in {F(v) : v \in {x}} : TRUE

\* ---------------------------------------------------------------------------
\* os.path
\* ---------------------------------------------------------------------------
Norm(p) == SelectSeq(p, LAMBDA s : s # "")

dirname(p) == IF p = <<>> THEN <<>> ELSE SubSeq(p, 1, Len(p) - 1)

basename(p) == IF p = <<>> THEN "" ELSE p[Len(p)]

join(p, s) == IF p # <<>> /\ p[Len(p)] = "" THEN Append(SubSeq(p, 1, Len(p) - 1), s)
              ELSE Append(p, s)

exists(f, p) == Norm(p) \in f

\* os.makedirs(path, exist_ok=True): the directory and its missing ancestors
makedirs(f, p) == f \cup Prefixes(Norm(p))

\* ---------------------------------------------------------------------------
\* Path helper
\* ---------------------------------------------------------------------------
Drive == "C:"

RECURSIVE check_path_exists_nearest_ancestor(_, _)
\* a mutation of check_path_exists: a missing path whose nearest existing
\* ancestor is found counts as reachable
check_path_exists_nearest_ancestor(f, path) ==
    IF exists(f, path) THEN [ok |-> TRUE, msg |-> <<>>]
    ELSE IF platform = "Windows" /\ ~exists(f, <<>>)
         THEN [ok |-> FALSE, msg |-> <<"Drive", Drive>>]
    ELSE IF ~exists(f, dirname(path))
         THEN check_path_exists_nearest_ancestor(f, dirname(path))
    ELSE [ok |-> TRUE, msg |-> <<>>]

RECURSIVE check_path_exists(_, _)
check_path_exists(f, path) ==
    IF exists(f, path) THEN [ok |-> TRUE, msg |-> <<>>]
    ELSE IF platform = "Windows" /\ ~exists(f, <<>>)
         THEN [ok |-> FALSE, msg |-> <<"Drive", Drive>>]
    ELSE IF ~exists(f, dirname(path))
         THEN check_path_exists(f, dirname(path))
    ELSE [ok |-> FALSE, msg |-> <<"Path">> \o path]

\* a mutation of ensure_directory_exists: os.makedirs is called without
\* exist_ok and without looking whether the directory is there already
ensure_directory_exists_no_exist_ok(f, e, directory_path) ==
    Bind(check_path_exists(f, dirname(directory_path)), LAMBDA chk :
    IF ~chk.ok THEN [ok |-> FALSE, msg |-> chk.msg, fs |-> f]
    ELSE IF exists(f, directory_path)
         THEN [ok |-> FALSE, msg |-> <<"Error creating directory">> \o directory_path, fs |-> f]
    ELSE IF Norm(directory_path) \in e.denied
         THEN [ok |-> FALSE, msg |-> <<e.mkErr>> \o directory_path, fs |-> f]
    ELSE [ok |-> TRUE, msg |-> <<>>, fs |-> makedirs(f, directory_path)])

\* e.denied: the directories on which os.makedirs raises; e.mkErr: what it raises
ensure_directory_exists(f, e, directory_path) ==
    Bind(check_path_exists(f, dirname(directory_path)), LAMBDA chk :
    IF ~chk.ok THEN [ok |-> FALSE, msg |-> chk.msg, fs |-> f]
    ELSE IF ~exists(f, directory_path)
         THEN IF Norm(directory_path) \in e.denied
              THEN [ok |-> FALSE, msg |-> <<e.mkErr>> \o directory_path, fs |-> f]
              ELSE [ok |-> TRUE, msg |-> <<>>, fs |-> makedirs(f, directory_path)]
    ELSE [ok |-> TRUE, msg |-> <<>>, fs |-> f])

\* ---------------------------------------------------------------------------
\* Scene traversal
\* ---------------------------------------------------------------------------
DictSet(d, k, v) == [x \in DOMAIN d \cup {k} |-> IF x = k THEN v ELSE d[x]]

EmptyDict == [x \in {} |-> None]

RECURSIVE recurse_layer_coll(_, _, _)
RECURSIVE recurse_layer_children(_, _, _)
\* a mutation of recurse_layer_coll: the parent of a visible collection is
\* not recorded
recurse_layer_coll_no_parent(layer_coll, parent_coll, acc) ==
    LET coll == layer_coll[Len(layer_coll)] IN
    Bind(IF layer_coll \notin lcHide /\ coll \notin collHide
         THEN [acc EXCEPT !.all_visible = @ \cup {coll}]
         ELSE acc,
         LAMBDA a1 : recurse_layer_children(layer_coll, children[coll], a1))

\* layer_coll is the path of a layer collection; its collection is the last name
recurse_layer_coll(layer_coll, parent_coll, acc) ==
    LET coll == layer_coll[Len(layer_coll)] IN
    Bind(IF layer_coll \notin lcHide /\ coll \notin collHide
         THEN [all_visible |-> acc.all_visible \cup {coll},
               child_to_parent |->
                   IF parent_coll # None
                   THEN DictSet(acc.child_to_parent, coll, parent_coll)
                   ELSE acc.child_to_parent]
         ELSE acc,
         LAMBDA a1 : recurse_layer_children(layer_coll, children[coll], a1))

recurse_layer_children(layer_coll, kids, acc) ==
    IF kids = <<>> THEN acc
    ELSE Bind(recurse_layer_coll(Append(layer_coll, Head(kids)),
                                 layer_coll[Len(layer_coll)], acc),
              LAMBDA a1 : recurse_layer_children(layer_coll, Tail(kids), a1))

RECURSIVE gather_top_level_walk(_, _)
gather_top_level_walk(kids, acc) ==
    IF kids = <<>> THEN acc
    ELSE Bind(recurse_layer_coll(<<Head(kids)>>, None, acc),
              LAMBDA a1 : gather_top_level_walk(Tail(kids), a1))

\* the collections of the returned list; the list's order is the iteration
\* order of a Python set, which the caller cannot rely on
gather_top_level_collections ==
    Bind(gather_top_level_walk(children[Master],
                               [all_visible |-> {}, child_to_parent |-> EmptyDict]),
         LAMBDA acc : {c \in acc.all_visible : c \notin DOMAIN acc.child_to_parent})

allowed_visible(objs, allowed_types) ==
    SelectSeq(objs, LAMBDA o : objType[o] \in allowed_types /\ o \notin objHide)

RECURSIVE gather_all_objects_recursive(_, _)
RECURSIVE gather_all_objects_children(_, _)
\* a mutation of gather_all_objects_recursive: the child collections come
\* before the direct members
gather_all_objects_children_first(collection, allowed_types) ==
    gather_all_objects_children(children[collection], allowed_types)
        \o allowed_visible(members[collection], allowed_types)

\* a mutation of gather_all_objects_recursive: the child collections are
\* not visited
gather_all_objects_direct(collection, allowed_types) ==
    allowed_visible(members[collection], allowed_types)

gather_all_objects_recursive(collection, allowed_types) ==
    allowed_visible(members[collection], allowed_types)
        \o gather_all_objects_children(children[collection], allowed_types)

gather_all_objects_children(kids, allowed_types) ==
    IF kids = <<>> THEN <<>>
    ELSE gather_all_objects_recursive(Head(kids), allowed_types)
             \o gather_all_objects_children(Tail(kids), allowed_types)

RECURSIVE Descendants(_)
\* the collections below c (collection.children_recursive)
Descendants(c) ==
    Range(children[c]) \cup UNION {Descendants(k) : k \in Range(children[c])}

\* collection.all_objects, in the host's order
all_objects(c) ==
    SetToSeq(UNION {Range(members[d]) : d \in {c} \cup Descendants(c)}, ObjOrder)

\* object.users_collection, in the host's order
users_collection(o) ==
    SetToSeq({c \in AllColls : o \in Range(members[c])}, CollOrder \o <<Master>>)

get_object_types ==
    (IF props.export_empty THEN {"EMPTY"} ELSE {})
    \cup (IF props.export_camera THEN {"CAMERA"} ELSE {})
    \cup (IF props.export_lamp THEN {"LIGHT"} ELSE {})
    \cup (IF props.export_armature THEN {"ARMATURE"} ELSE {})
    \cup (IF props.export_mesh THEN {"MESH"} ELSE {})
    \cup (IF props.export_other THEN {"OTHER"} ELSE {})

\* ---------------------------------------------------------------------------
\* Export invoker.  h is the host state a run works on:
\*   fs, selected, active, imode, exported_files, and the history fields
\*   log (the export_fbx calls) and reports (self.report)
\* e is what the environment does during the run:
\*   denied, mkErr (os.makedirs), failing (the invocations of the host exporter
\*   that raise, by their number in the run), switchOK (whether mode_set succeeds)
\* ---------------------------------------------------------------------------
Report(h, level, msg) == [h EXCEPT !.reports = Append(@, <<level>> \o msg)]

Logged(h, filepath, objects, status) ==
    [h EXCEPT !.log = Append(@, [filepath |-> filepath, objects |-> objects,
                                 status |-> status])]

\* the (path, objects) pairs of a log, in order
JobList(log) == [i \in 1..Len(log) |-> <<log[i].filepath, log[i].objects>>]

\* how many times the host exporter has been invoked in this run
Invocations(h) == Len(SelectSeq(h.log, LAMBDA j : j.status \in {"raised", "ok"}))

\* forces object mode (best effort) and selects the objects of the job that
\* are in the view layer; the first of them becomes the active object
select_for_export(h, e, objects) ==
    Bind(SelectSeq(objects, LAMBDA o : o \in viewObjs), LAMBDA valid_objects :
    [h EXCEPT !.imode = IF @ # "OBJECT" /\ e.switchOK THEN "OBJECT" ELSE @,
              !.selected = Range(valid_objects),
              !.active = IF valid_objects # <<>> THEN valid_objects[1] ELSE @])

\* a mutation of call_exporter: an exporter exception is counted as a success
call_exporter_counts_failure(h, e, filepath, objects) ==
    IF Invocations(h) + 1 \in e.failing
    THEN [h |-> Logged(Report(h, "ERROR", <<"Error exporting">> \o filepath),
                       filepath, objects, "raised"),
          ret |-> TRUE]
    ELSE [h |-> Logged([h EXCEPT !.exported_files =
                            Append(@, [name |-> basename(filepath),
                                       file_path |-> filepath])],
                       filepath, objects, "ok"),
          ret |-> TRUE]

\* the try block around the host exporter
call_exporter(h, e, filepath, objects) ==
    IF Invocations(h) + 1 \in e.failing
    THEN [h |-> Logged(Report(h, "ERROR", <<"Error exporting">> \o filepath),
                       filepath, objects, "raised"),
          ret |-> FALSE]
    ELSE [h |-> Logged([h EXCEPT !.exported_files =
                            Append(@, [name |-> basename(filepath),
                                       file_path |-> filepath])],
                       filepath, objects, "ok"),
          ret |-> TRUE]

\* a mutation of export_fbx: the guard on an empty object list is missing
export_fbx_without_guard(h, e, filepath, objects) ==
    Bind(ensure_directory_exists(h.fs, e, dirname(filepath)), LAMBDA ens :
    IF ~ens.ok
    THEN [h |-> Logged(Report(h, "ERROR", ens.msg), filepath, objects, "nodir"),
          ret |-> FALSE]
    ELSE Bind(select_for_export([h EXCEPT !.fs = ens.fs], e, objects),
              LAMBDA h1 : call_exporter(h1, e, filepath, objects)))

export_fbx(h, e, filepath, objects) ==
    IF objects = <<>>
    THEN [h |-> Logged(h, filepath, objects, "empty"), ret |-> FALSE]
    ELSE
    Bind(ensure_directory_exists(h.fs, e, dirname(filepath)), LAMBDA ens :
    IF ~ens.ok
    THEN [h |-> Logged(Report(h, "ERROR", ens.msg), filepath, objects, "nodir"),
          ret |-> FALSE]
    ELSE Bind(select_for_export([h EXCEPT !.fs = ens.fs], e, objects),
              LAMBDA h1 : call_exporter(h1, e, filepath, objects)))

fbx(name) == name \o ".fbx"

\* a mutation of collection_folder: no subfolder is made for a collection
collection_folder_flat(parent_dir, collection, create_subfolder) == parent_dir

\* the folder a collection is exported into
collection_folder(parent_dir, collection, create_subfolder) ==
    IF create_subfolder THEN join(parent_dir, collection) ELSE parent_dir

\* what a successful export_fbx adds to exported_count
Counted(ret) == IF ret THEN 1 ELSE 0

RECURSIVE export_collection_recursive(_, _, _, _, _, _)
RECURSIVE export_collection_children(_, _, _, _, _, _)
export_collection_recursive(h, e, collection, parent_dir, allowed_types, create_subfolder) ==
    Bind(collection_folder(parent_dir, collection, create_subfolder), LAMBDA coll_folder :
    Bind(IF create_subfolder THEN ensure_directory_exists(h.fs, e, coll_folder)
         ELSE [ok |-> TRUE, msg |-> <<>>, fs |-> h.fs], LAMBDA ens :
    IF ~ens.ok THEN [h |-> Report(h, "ERROR", ens.msg), n |-> 0]
    ELSE
    Bind([h EXCEPT !.fs = ens.fs], LAMBDA h0 :
    IF props.combine_nested_collections /\ children[collection] # <<>>
    THEN Bind(gather_all_objects_recursive(collection, allowed_types), LAMBDA all_objs :
         IF all_objs # <<>>
         THEN Bind(export_fbx(h0, e, join(coll_folder, fbx(collection)), all_objs),
                   LAMBDA r : [h |-> r.h, n |-> Counted(r.ret)])
         ELSE [h |-> h0, n |-> 0])
    ELSE Bind(allowed_visible(members[collection], allowed_types), LAMBDA direct_objs :
         Bind(IF direct_objs # <<>>
              THEN export_fbx(h0, e, join(coll_folder, fbx(collection)), direct_objs)
              ELSE [h |-> h0, ret |-> FALSE], LAMBDA r :
         Bind(export_collection_children(r.h, e, children[collection], coll_folder,
                  allowed_types, props.separate_child_collections), LAMBDA rc :
         [h |-> rc.h, n |-> Counted(r.ret) + rc.n]))))))

\* a mutation of export_collection_children: the loop ends at the first
\* collection whose folder cannot be created
export_collection_children_until_failure(h, e, kids, coll_folder, allowed_types, create_subfolder) ==
    IF kids = <<>> THEN [h |-> h, n |-> 0]
    ELSE Bind(export_collection_recursive(h, e, Head(kids), coll_folder,
                  allowed_types, create_subfolder), LAMBDA r :
         IF Len(r.h.reports) > Len(h.reports) /\ Len(r.h.log) = Len(h.log)
         THEN r
         ELSE Bind(export_collection_children(r.h, e, Tail(kids), coll_folder,
                       allowed_types, create_subfolder), LAMBDA rest :
              [h |-> rest.h, n |-> r.n + rest.n]))

export_collection_children(h, e, kids, coll_folder, allowed_types, create_subfolder) ==
    IF kids = <<>> THEN [h |-> h, n |-> 0]
    ELSE Bind(export_collection_recursive(h, e, Head(kids), coll_folder,
                  allowed_types, create_subfolder), LAMBDA r :
         Bind(export_collection_children(r.h, e, Tail(kids), coll_folder,
                  allowed_types, create_subfolder), LAMBDA rest :
         [h |-> rest.h, n |-> r.n + rest.n]))

\* ---------------------------------------------------------------------------
\* Selection mode
\* ---------------------------------------------------------------------------
\* a dict whose keys keep their insertion order
setdefault_append(m, k, v) ==
    IF k \in Range(m.keys) THEN [m EXCEPT !.val = DictSet(@, k, Append(@[k], v))]
    ELSE [keys |-> Append(m.keys, k), val |-> DictSet(m.val, k, <<v>>)]

RECURSIVE gather_selected_inner(_, _, _)
gather_selected_inner(m, obj, colls) ==
    IF colls = <<>> THEN m
    ELSE Bind(setdefault_append(m, Head(colls), obj),
              LAMBDA m1 : gather_selected_inner(m1, obj, Tail(colls)))

RECURSIVE gather_selected_outer(_, _)
gather_selected_outer(m, objs) ==
    IF objs = <<>> THEN m
    ELSE Bind(gather_selected_inner(m, Head(objs), users_collection(Head(objs))),
              LAMBDA m1 : gather_selected_outer(m1, Tail(objs)))

gather_selected_by_collection(selected_objs) ==
    gather_selected_outer([keys |-> <<>>, val |-> EmptyDict], selected_objs)

\* a mutation of already_visited: no collection counts as visited
already_visited_never(parent_coll, visited) == FALSE

\* the test that keeps a collection from being exported twice
already_visited(parent_coll, visited) == parent_coll \in visited

RECURSIVE export_selected_as_collections(_, _, _, _, _, _)
RECURSIVE export_selected_children(_, _, _, _, _, _)
export_selected_as_collections(h, e, coll_map, parent_coll, parent_dir, visited) ==
    IF already_visited(parent_coll, visited) THEN [h |-> h, n |-> 0, visited |-> visited]
    ELSE
    Bind(join(parent_dir, parent_coll), LAMBDA coll_folder :
    Bind(ensure_directory_exists(h.fs, e, coll_folder), LAMBDA ens :
    IF ~ens.ok
    THEN [h |-> Report(h, "ERROR", ens.msg), n |-> 0,
          visited |-> visited \cup {parent_coll}]
    ELSE
    Bind([h EXCEPT !.fs = ens.fs], LAMBDA h0 :
    Bind(IF parent_coll \in Range(coll_map.keys) THEN coll_map.val[parent_coll] ELSE <<>>,
         LAMBDA objs :
    Bind(IF objs # <<>>
         THEN export_fbx(h0, e, join(coll_folder, fbx(parent_coll)), objs)
         ELSE [h |-> h0, ret |-> FALSE], LAMBDA r :
    Bind(export_selected_children(r.h, e, coll_map, children[parent_coll],
                                  coll_folder, visited \cup {parent_coll}), LAMBDA rc :
    [h |-> rc.h, n |-> Counted(r.ret) + rc.n, visited |-> rc.visited]))))))

export_selected_children(h, e, coll_map, kids, coll_folder, visited) ==
    IF kids = <<>> THEN [h |-> h, n |-> 0, visited |-> visited]
    ELSE Bind(IF Head(kids) \in Range(coll_map.keys)
              THEN export_selected_as_collections(h, e, coll_map, Head(kids),
                                                  coll_folder, visited)
              ELSE [h |-> h, n |-> 0, visited |-> visited], LAMBDA r :
         Bind(export_selected_children(r.h, e, coll_map, Tail(kids),
                                       coll_folder, r.visited), LAMBDA rest :
         [h |-> rest.h, n |-> r.n + rest.n, visited |-> rest.visited]))

RECURSIVE export_selected_each_object(_, _, _, _)
export_selected_each_object(h, e, selected_objs, dir) ==
    IF selected_objs = <<>> THEN [h |-> h, n |-> 0]
    ELSE
    LET obj == Head(selected_objs)
        obj_folder == join(dir, obj)
        export_path == IF props.make_separate_folders THEN join(obj_folder, fbx(obj))
                       ELSE join(dir, fbx(obj))
    IN
    Bind(IF props.make_separate_folders
         THEN ensure_directory_exists(h.fs, e, obj_folder)
         ELSE [ok |-> TRUE, msg |-> <<>>, fs |-> h.fs], LAMBDA ens :
    Bind(IF ~ens.ok THEN [h |-> Report(h, "ERROR", ens.msg), ret |-> FALSE]
         ELSE export_fbx([h EXCEPT !.fs = ens.fs], e, export_path, <<obj>>), LAMBDA r :
    Bind(export_selected_each_object(r.h, e, Tail(selected_objs), dir), LAMBDA rest :
    [h |-> rest.h, n |-> Counted(r.ret) + rest.n])))

\* ---------------------------------------------------------------------------
\* The operator
\* ---------------------------------------------------------------------------
\* directory of the saved .blend file, which "//" paths are relative to
BlendDir == <<"proj">>

\* bpy.path.abspath
abspath(p) == IF p # <<>> /\ p[1] = "//" THEN BlendDir \o Tail(p) ELSE p

RECURSIVE export_top_level(_, _, _, _, _, _)
\* the loop of the single-mesh, separate-folders branch
export_top_level(h, e, coll_map, top_level, dir, visited) ==
    IF top_level = <<>> THEN [h |-> h, n |-> 0]
    ELSE Bind(export_selected_as_collections(h, e, coll_map, Head(top_level), dir, visited),
              LAMBDA r :
         Bind(export_top_level(r.h, e, coll_map, Tail(top_level), dir, r.visited),
              LAMBDA rest :
         [h |-> rest.h, n |-> r.n + rest.n]))

\* a mutation of filter_selected: the kind of the objects is not looked at
filter_selected_any_kind(h, allowed_types) == SetToSeq(h.selected, ObjOrder)

\* the selected objects of an allowed kind
filter_selected(h, allowed_types) ==
    SelectSeq(SetToSeq(h.selected, ObjOrder), LAMBDA o : objType[o] \in allowed_types)

\* a mutation of single_export_name: the fallback name is always used
single_export_name_fallback(h) == "combined_export"

\* the name of the one file of the single-mesh branch
single_export_name(h) ==
    IF h.active # None /\ users_collection(h.active) # <<>>
    THEN users_collection(h.active)[1]
    ELSE "combined_export"

\* the branch on export_mode, from the snapshot to the report
export_branch(h, e, dir, top_colls) ==
    Bind(get_object_types, LAMBDA allowed_types :
    IF props.export_mode = "COLLECTIONS"
    THEN Bind(SelectSeq(top_colls,
                  LAMBDA c : allowed_visible(all_objects(c), allowed_types) # <<>>),
              LAMBDA valid_colls :
         Bind(export_collection_children(h, e, valid_colls, dir, allowed_types, TRUE),
              LAMBDA r :
         [h |-> Report(r.h, "INFO", <<"Collections mode">>), n |-> r.n, ret |-> "FINISHED"]))
    ELSE
    Bind(filter_selected(h, allowed_types), LAMBDA sel_objects :
    IF sel_objects = <<>>
    THEN [h |-> Report(h, "WARNING", <<"No valid selected objects to export">>),
          n |-> 0, ret |-> "CANCELLED"]
    ELSE IF props.as_single_mesh /\ props.make_separate_folders
    THEN Bind(gather_selected_by_collection(sel_objects), LAMBDA coll_map :
         Bind(SelectSeq(coll_map.keys,
                  LAMBDA c : ~\E other_coll \in Range(coll_map.keys) :
                                 other_coll # c /\ c \in Range(children[other_coll])),
              LAMBDA top_level :
         Bind(export_top_level(h, e, coll_map, top_level, dir, {}), LAMBDA r :
         [h |-> Report(r.h, "INFO", <<"Single Mesh + Separate Folders">>),
          n |-> r.n, ret |-> "FINISHED"])))
    ELSE IF props.as_single_mesh
    THEN Bind(single_export_name(h), LAMBDA export_name :
         Bind(export_fbx(h, e, join(dir, fbx(export_name)), sel_objects), LAMBDA r :
         [h |-> Report(r.h, "INFO", <<"single FBX", fbx(export_name)>>),
          n |-> Counted(r.ret), ret |-> "FINISHED"]))
    ELSE Bind(export_selected_each_object(h, e, sel_objects, dir), LAMBDA r :
         [h |-> Report(r.h, "INFO", <<"objects separately">>), n |-> r.n,
          ret |-> "FINISHED"])))

\* the host as a call finds it, with nothing logged or reported yet
Host ==
    [fs |-> fs, selected |-> selected, active |-> active, imode |-> imode,
     exported_files |-> exported_files, log |-> <<>>, reports |-> <<>>]

\* a mutation of run_start: the exported-file list is not cleared
run_start_keeps_files == Host

\* the host as execute first touches it: the exported-file list is cleared
run_start == [Host EXCEPT !.exported_files = <<>>]

\* the outcome of a run that ends at host state h
Outcome(h, ret, dir, snapshot, orig_sel, orig_active, n) ==
    [h |-> h, ret |-> ret, directory |-> dir, snapshot |-> snapshot,
     orig_sel |-> orig_sel, orig_active |-> orig_active, export_count |-> n,
     dialog |-> ret = "FINISHED" /\ Len(h.exported_files) > 0]

\* execute with self.directory = dir0; top_colls is the order in which the
\* list of top-level collections comes out
execute(e, dir0, top_colls) ==
    Bind(run_start, LAMBDA h0 :
    Bind(abspath(dir0), LAMBDA dir :
    Bind(check_path_exists(h0.fs, dirname(dir)), LAMBDA chk :
    IF ~chk.ok
    THEN Outcome(Report(h0, "ERROR", chk.msg), "CANCELLED", dir, FALSE, {}, None, 0)
    ELSE
    Bind(ensure_directory_exists(h0.fs, e, dir), LAMBDA ens :
    IF ~ens.ok
    THEN Outcome(Report(h0, "ERROR", ens.msg), "CANCELLED", dir, FALSE, {}, None, 0)
    ELSE
    Bind([h0 EXCEPT !.fs = ens.fs], LAMBDA h1 :
    Bind(export_branch(h1, e, dir, top_colls), LAMBDA b :
    IF b.ret = "CANCELLED"
    THEN Outcome(b.h, "CANCELLED", dir, TRUE, h1.selected, h1.active, 0)
    ELSE Outcome([b.h EXCEPT !.selected = h1.selected,
                             !.active = IF h1.active # None THEN h1.active ELSE @],
                 "FINISHED", dir, TRUE, h1.selected, h1.active, b.n)))))))

\* props.export_path left empty
Unset == <<"<empty>">>

Before == [fs |-> fs, selected |-> selected, active |-> active, imode |-> imode,
           exported_files |-> exported_files]

\* one call of execute, applied to the host; dry is where the same call
\* ends when the environment does nothing to it
Run(e, dir0, top_colls, dry) ==
    \E r \in {execute(e, dir0, top_colls)} :
    /\ fs' = r.h.fs
    /\ selected' = r.h.selected
    /\ active' = r.h.active
    /\ imode' = r.h.imode
    /\ exported_files' = r.h.exported_files
    /\ directory' = r.directory
    /\ runs' = runs + 1
    /\ last' = [op |-> "execute", ret |-> r.ret, log |-> r.h.log, reports |-> r.h.reports,
                snapshot |-> r.snapshot, orig_sel |-> r.orig_sel,
                orig_active |-> r.orig_active, export_count |-> r.export_count,
                dialog |-> r.dialog, env |-> e, dir0 |-> dir0, top_colls |-> top_colls,
                before |-> Before, undisturbed |-> JobList(dry.log)]
    /\ UNCHANGED <<sceneVars, props, platform>>

\* ---------------------------------------------------------------------------
\* Bounds and the inputs drawn within them
\* ---------------------------------------------------------------------------
MaxRuns == 2        \* handler calls in one behaviour
MaxFlags == 1       \* departures of a scene from the plain one
MaxFailIndex == 2   \* exporter invocations that may raise are numbered up to this

RECURSIVE UpTo(_, _)
\* the subsets of U with at most k members
UpTo(U, k) == IF k = 0 THEN {{}}
              ELSE LET P == UpTo(U, k - 1) IN P \cup {S \cup {x} : S \in P, x \in U}

NoFaults == [denied |-> {}, mkErr |-> "Permission denied", failing |-> {}, switchOK |-> TRUE]

\* What the environment may do during one run: nothing, or let some exporter
\* invocations raise (and a mode switch fail), or refuse one of the
\* directories the run would create.
EnvsAfter(dry) ==
    Bind({i \in 1..MaxFailIndex : i <= Invocations(dry)}, LAMBDA calls :
    {[NoFaults EXCEPT !.failing = f, !.switchOK = s] :
        f \in SUBSET calls,
        s \in IF imode = "OBJECT" \/ calls = {} THEN {TRUE} ELSE BOOLEAN}
    \cup
    {[NoFaults EXCEPT !.denied = {d}] : d \in dry.fs \ fs})

\* the call of execute that the environment leaves alone
DryRun(dir, top_colls) == execute(NoFaults, dir, top_colls).h

TopOrders == IF props.export_mode = "COLLECTIONS"
             THEN Perms(gather_top_level_collections)
             ELSE {<<>>}

\* ---------------------------------------------------------------------------
\* Handlers
\* ---------------------------------------------------------------------------
TargetDirs == {<<"out", "">>, <<"new">>, <<"gone", "new">>, <<"//", "fbx">>}

\* invoke: run at once when an export path is set, else open the file browser
invoke ==
    /\ runs < MaxRuns
    /\ ~pending
    /\ IF props.export_path # Unset
       THEN /\ \E t \in TopOrders : \E dry \in {DryRun(props.export_path, t)} :
                   \E e \in EnvsAfter(dry) : Run(e, props.export_path, t, dry)
            /\ UNCHANGED pending
       ELSE /\ pending' = TRUE
            /\ UNCHANGED <<sceneVars, props, platform, fs, selected, active, imode,
                           exported_files, directory, runs, last>>

\* the file browser confirms a folder and the operator executes
FileSelect ==
    /\ runs < MaxRuns
    /\ pending
    /\ pending' = FALSE
    /\ \E d \in TargetDirs, t \in TopOrders : \E dry \in {DryRun(d, t)} :
          \E e \in EnvsAfter(dry) : Run(e, d, t, dry)

Next == invoke \/ FileSelect

\* ---------------------------------------------------------------------------
\* The helpers called on their own
\* ---------------------------------------------------------------------------
FbxPaths == {<<"out", "A.fbx">>, <<"new", "A.fbx">>, <<"gone", "new", "A.fbx">>}

ObjectLists == {<<>>, <<"X">>, <<"X", "Y">>, <<"Z">>}

\* what the environment may do during one call of export_fbx
FbxEnvs(filepath) ==
    {[NoFaults EXCEPT !.failing = f, !.switchOK = s] : f \in SUBSET {1}, s \in BOOLEAN}
    \cup {[NoFaults EXCEPT !.denied = {Norm(dirname(filepath))}]}

\* one call of export_fbx, applied to the host
CallExportFbx ==
    /\ runs < MaxRuns
    /\ \E filepath \in FbxPaths, objects \in ObjectLists :
       \E e \in FbxEnvs(filepath) :
       \E r \in {export_fbx(Host, e, filepath, objects)} :
          /\ fs' = r.h.fs
          /\ selected' = r.h.selected
          /\ active' = r.h.active
          /\ imode' = r.h.imode
          /\ exported_files' = r.h.exported_files
          /\ runs' = runs + 1
          /\ last' = [op |-> "export_fbx", ret |-> r.ret, log |-> r.h.log,
                      reports |-> r.h.reports, filepath |-> filepath,
                      objects |-> objects, env |-> e, before |-> Before]
    /\ UNCHANGED <<sceneVars, props, platform, directory, pending>>

NextFbx == CallExportFbx

DirPaths == {<<>>, <<"out">>, <<"out", "">>, <<"new">>, <<"gone", "new">>,
             <<"out", "A">>, <<"out", "A", "B">>}

MkErrs == {"Permission denied", "Path not found", "Error creating directory"}

\* what os.makedirs may do during one call of ensure_directory_exists
DirEnvs(directory_path) ==
    {NoFaults}
    \cup {[NoFaults EXCEPT !.denied = {Norm(directory_path)}, !.mkErr = m] : m \in MkErrs}

\* the call before this one, as the history keeps it
NoCall == [path |-> Unset, ok |-> FALSE, created |-> FALSE]

\* one call of ensure_directory_exists, applied to the filesystem
CallEnsureDirectory ==
    /\ runs < MaxRuns
    /\ \E directory_path \in DirPaths :
       \E e \in DirEnvs(directory_path) :
       \E r \in {ensure_directory_exists(fs, e, directory_path)} :
          /\ fs' = r.fs
          /\ runs' = runs + 1
          /\ last' = [op |-> "ensure_directory_exists", ok |-> r.ok, msg |-> r.msg,
                      path |-> directory_path, env |-> e, before |-> Before,
                      prev |-> IF last.op = "ensure_directory_exists"
                               THEN [path |-> last.path, ok |-> last.ok,
                                     created |-> last.before.fs # fs]
                               ELSE NoCall]
    /\ UNCHANGED <<sceneVars, props, platform, directory, pending, selected, active,
                   imode, exported_files>>

\* one call of check_path_exists; the filesystem is only read
CallCheckPath ==
    /\ runs < MaxRuns
    /\ \E path \in DirPaths :
       \E r \in {check_path_exists(fs, path)} :
          last' = [op |-> "check_path_exists", ok |-> r.ok, msg |-> r.msg,
                   path |-> path, before |-> Before]
    /\ runs' = runs + 1
    /\ UNCHANGED <<sceneVars, props, platform, directory, pending, selected, active,
                   imode, exported_files, fs>>

NextPath == CallEnsureDirectory \/ CallCheckPath

TypeSets == {{}, {"MESH"}, {"MESH", "EMPTY"}}

\* the call before this one, as the history keeps it
NoGather == [collection |-> None, allowed_types |-> {}, result |-> <<>>]

\* one call of gather_all_objects_recursive; the scene is only read
CallGather ==
    /\ runs < MaxRuns
    /\ \E collection \in AllColls, allowed_types \in TypeSets :
          last' = [op |-> "gather_all_objects_recursive", collection |-> collection,
                   allowed_types |-> allowed_types,
                   result |-> gather_all_objects_recursive(collection, allowed_types),
                   prev |-> IF last.op = "gather_all_objects_recursive"
                            THEN [collection |-> last.collection,
                                  allowed_types |-> last.allowed_types,
                                  result |-> last.result]
                            ELSE NoGather]
    /\ runs' = runs + 1
    /\ UNCHANGED <<sceneVars, props, platform, directory, pending, selected, active,
                   imode, exported_files, fs>>

NextGather == CallGather

\* ---------------------------------------------------------------------------
\* Initial states: scenes, options and hosts the add-on can be started in
\* ---------------------------------------------------------------------------
Index(c) == CHOOSE i \in 1..Len(CollOrder) : CollOrder[i] = c

RECURSIVE Below(_, _)
\* the collections below c in the child relation ch
Below(ch, c) == ch[c] \cup UNION {Below(ch, k) : k \in ch[c]}

\* acyclic child relations in which every collection is linked into the scene
Graphs ==
    {ch \in [AllColls -> SUBSET Colls] :
        /\ \A c \in Colls : \A k \in ch[c] : Index(k) > Index(c)
        /\ Below(ch, Master) = Colls}

RECURSIVE PathsBelow(_, _)
\* the layer collections at and below the one with path p
PathsBelow(ch, p) == {p} \cup UNION {PathsBelow(ch, Append(p, k)) : k \in ch[p[Len(p)]]}

LayerPaths(ch) == UNION {PathsBelow(ch, <<k>>) : k \in ch[Master]}

Home == [o \in Objs |-> CollOrder[CHOOSE i \in 1..Len(ObjOrder) : ObjOrder[i] = o]]

\* the ways a scene can depart from the plain one (all visible, all meshes,
\* one object per collection, everything in the view layer)
SceneFlags(ch) ==
    {<<"lc", p>> : p \in LayerPaths(ch)}
    \cup {<<"coll", <<c>>>> : c \in Colls}
    \cup {<<"hide", <<o>>>> : o \in Objs}
    \cup {<<"type", <<o>>>> : o \in Objs}
    \cup {<<"noview", <<o>>>> : o \in Objs}
    \cup {<<"link", <<x[1], x[2]>>>> : x \in {y \in Objs \X AllColls : y[2] # Home[y[1]]}}

\* the departures collection mode can see
CollectionFlags(ch) == {f \in SceneFlags(ch) : f[1] # "link" \/ f[2][2] # Master}

\* the departures selection mode can see
SelectionFlags(ch) == {f \in SceneFlags(ch) : f[1] \in {"type", "link"}}

InitScene(ch, F) ==
    /\ children = [c \in AllColls |-> SetToSeq(ch[c], CollOrder)]
    /\ members = [c \in AllColls |->
                     SetToSeq({o \in Objs : Home[o] = c \/ <<"link", <<o, c>>>> \in F}, ObjOrder)]
    /\ lcHide = {f[2] : f \in {x \in F : x[1] = "lc"}}
    /\ collHide = {f[2][1] : f \in {x \in F : x[1] = "coll"}}
    /\ objHide = {f[2][1] : f \in {x \in F : x[1] = "hide"}}
    /\ objType = [o \in Objs |-> IF <<"type", <<o>>>> \in F THEN "EMPTY" ELSE "MESH"]
    /\ viewObjs = {o \in Objs : <<"noview", <<o>>>> \notin F}

Defaults == [export_mode |-> "COLLECTIONS", export_path |-> Unset,
             as_single_mesh |-> TRUE, make_separate_folders |-> FALSE,
             separate_child_collections |-> FALSE, combine_nested_collections |-> FALSE,
             export_empty |-> FALSE, export_camera |-> FALSE, export_lamp |-> FALSE,
             export_armature |-> FALSE, export_mesh |-> TRUE, export_other |-> FALSE]

Stale == <<[name |-> "old.fbx", file_path |-> <<"out", "old.fbx">>]>>

InitHost(plat, f, md, files, r) ==
    /\ platform = plat
    /\ fs = f
    /\ imode = md
    /\ exported_files = files
    /\ runs = r
    /\ directory = Unset
    /\ pending = FALSE
    /\ last = [op |-> "none"]

PlainFs == {<<>>, <<"out">>, <<"proj">>}

\* collection mode over every scene, one run
InitCollections ==
    /\ \E ch \in Graphs : \E F \in UpTo(CollectionFlags(ch), MaxFlags) : InitScene(ch, F)
    /\ \E cn, sc \in BOOLEAN :
          props = [Defaults EXCEPT !.export_path = <<"out">>,
                                   !.combine_nested_collections = cn,
                                   !.separate_child_collections = sc]
    /\ selected = {"Z"} \cap viewObjs
    /\ active = None
    /\ InitHost("Linux", PlainFs, "OBJECT", <<>>, MaxRuns - 1)

PlainGraph == [c \in AllColls |-> CASE c = Master -> {"A", "C"} [] c = "A" -> {"B"}
                                     [] OTHER -> {}]

\* selection mode over every scene and selection, one run; only the
\* single-mesh, separate-folders branch reads the collection hierarchy
InitSelection ==
    /\ \E sm, sf \in BOOLEAN :
          /\ props = [Defaults EXCEPT !.export_mode = "SELECTED",
                                      !.export_path = <<"out">>,
                                      !.as_single_mesh = sm,
                                      !.make_separate_folders = sf]
          /\ \E ch \in IF sm /\ sf THEN Graphs ELSE {PlainGraph} :
                \E F \in UpTo(SelectionFlags(ch), MaxFlags) : InitScene(ch, F)
    /\ selected \in SUBSET Objs
    /\ active \in IF props.as_single_mesh /\ props.make_separate_folders
                   THEN {None} ELSE {None, "X"}
    /\ InitHost("Linux", PlainFs, "OBJECT", <<>>, MaxRuns - 1)

\* every option, target folder, platform and interaction mode on one scene,
\* after an earlier run, one run
InitHosts ==
    /\ InitScene(PlainGraph, {})
    /\ \E em \in {"COLLECTIONS", "SELECTED"}, a, b \in BOOLEAN,
          d \in TargetDirs \cup {<<"out">>} :
          props = [Defaults EXCEPT !.export_mode = em,
                                   !.export_path = d,
                                   !.as_single_mesh = a,
                                   !.make_separate_folders = b,
                                   !.combine_nested_collections = a,
                                   !.separate_child_collections = b]
    /\ \/ selected = {} /\ active = None
       \/ selected = {"X", "Y"} /\ active = "Y"
    /\ \E md \in {"OBJECT", "EDIT_MESH"}, files \in {<<>>, Stale} :
       \/ InitHost("Linux", PlainFs, md, files, MaxRuns - 1)
       \/ InitHost("Windows", PlainFs, md, files, MaxRuns - 1)
       \/ InitHost("Windows", {}, md, files, MaxRuns - 1)

\* runs in sequence, each into a folder picked in the file browser
InitRuns ==
    /\ InitScene(PlainGraph, {})
    /\ \E em \in {"COLLECTIONS", "SELECTED"}, a, b \in BOOLEAN :
          props = [Defaults EXCEPT !.export_mode = em,
                                   !.as_single_mesh = a,
                                   !.make_separate_folders = b,
                                   !.combine_nested_collections = a,
                                   !.separate_child_collections = b]
    /\ selected = {"X", "Y"}
    /\ active = "Y"
    /\ InitHost("Linux", PlainFs, "OBJECT", <<>>, 0)

Init == InitCollections \/ InitSelection \/ InitHosts \/ InitRuns

Spec == Init /\ [][Next]_vars

\* hosts in which export_fbx is called once
InitFbx ==
    /\ \E F \in {{}, {<<"noview", <<"X">>>>}} : InitScene(PlainGraph, F)
    /\ props = [Defaults EXCEPT !.export_path = <<"out">>]
    /\ \/ selected = {} /\ active = None
       \/ selected = {"Y", "Z"} /\ active = "Z"
    /\ \E md \in {"OBJECT", "EDIT_MESH"}, files \in {<<>>, Stale} :
          InitHost("Linux", PlainFs, md, files, MaxRuns - 1)

SpecFbx == InitFbx /\ [][NextFbx]_vars

\* filesystems on which ensure_directory_exists is called twice
InitPath ==
    /\ InitScene(PlainGraph, {})
    /\ props = Defaults
    /\ selected = {}
    /\ active = None
    /\ \/ InitHost("Linux", PlainFs, "OBJECT", <<>>, MaxRuns - 2)
       \/ InitHost("Linux", {<<>>}, "OBJECT", <<>>, MaxRuns - 2)
       \/ InitHost("Windows", PlainFs, "OBJECT", <<>>, MaxRuns - 2)
       \/ InitHost("Windows", {}, "OBJECT", <<>>, MaxRuns - 2)

SpecPath == InitPath /\ [][NextPath]_vars

\* the departures gather_all_objects_recursive can see
GatherFlags(ch) == {f \in SceneFlags(ch) : f[1] \in {"type", "hide", "link"}}

\* scenes on which gather_all_objects_recursive is called twice
InitGather ==
    /\ \E ch \in Graphs : \E F \in UpTo(GatherFlags(ch), MaxFlags) : InitScene(ch, F)
    /\ props = Defaults
    /\ selected = {}
    /\ active = None
    /\ InitHost("Linux", PlainFs, "OBJECT", <<>>, MaxRuns - 2)

SpecGather == InitGather /\ [][NextGather]_vars

\* ---------------------------------------------------------------------------
\* Properties
\* ---------------------------------------------------------------------------
Ran == last.op = "execute"

\* the run got past the validation of the target root
Validated == Ran /\ last.snapshot

\* the target root of the last run
Root == abspath(last.dir0)

StatusCount(log, st) == Len(SelectSeq(log, LAMBDA j : j.status \in st))

Invoked(log) == SelectSeq(log, LAMBDA j : j.status \in {"raised", "ok"})

RECURSIVE Records(_)
\* the exported-file records of the successful jobs of a log, in order
Records(log) ==
    IF log = <<>> THEN <<>>
    ELSE (IF Head(log).status = "ok"
          THEN <<[name |-> Head(log).filepath[Len(Head(log).filepath)],
                  file_path |-> Head(log).filepath]>>
          ELSE <<>>) \o Records(Tail(log))

\* C1: a run that passes the validation of the target root ends with the
\* selection and the active object it started with, whatever its jobs did.
C1_SelectionAndActiveRestored ==
    Validated => /\ selected = last.before.selected
                 /\ active = last.before.active

\* the layer collections of the scene as it is
CurLayerPaths == LayerPaths([c \in AllColls |-> Range(children[c])])

VisibleLink(p) == p \notin lcHide /\ p[Len(p)] \notin collHide

\* parent -> child edges of the visibility-filtered graph
VisibleEdges == {<<p[Len(p) - 1], p[Len(p)]>> : p \in {q \in CurLayerPaths : Len(q) >= 2 /\ VisibleLink(q)}}

RECURSIVE VisibleBelow(_, _)
\* the collections reachable from c along visible edges, in at most n steps
VisibleBelow(c, n) ==
    IF n = 0 THEN {}
    ELSE LET kids == {e[2] : e \in {x \in VisibleEdges : x[1] = c}} IN
         kids \cup UNION {VisibleBelow(k, n - 1) : k \in kids}

\* C2: no member of the result of gather_top_level_collections is a
\* descendant of another member in the visibility-filtered graph, and every
\* member is visible through a link at the root and through no other link.
C2_TopLevelAreVisibleRoots ==
    \A c \in gather_top_level_collections :
        /\ \A d \in gather_top_level_collections \ {c} :
               c \notin VisibleBelow(d, Cardinality(Colls))
        /\ <<c>> \in CurLayerPaths /\ VisibleLink(<<c>>)
        /\ \A p \in CurLayerPaths : Len(p) >= 2 /\ p[Len(p)] = c => ~VisibleLink(p)

\* a run took the top-level collections of a scene in which a visible
\* collection with two layer collections is left out and something is hidden
C2_Witness ==
    /\ Ran /\ props.export_mode = "COLLECTIONS"
    /\ Range(last.top_colls) = gather_top_level_collections
    /\ last.top_colls # <<>>
    /\ lcHide \cup collHide # {}
    /\ \E c \in Colls \ gather_top_level_collections :
          /\ Cardinality({p \in CurLayerPaths : p[Len(p)] = c}) >= 2
          /\ \E p \in CurLayerPaths : p[Len(p)] = c /\ VisibleLink(p)

\* a collection with no visible layer collection anywhere
HiddenColl(c) == \A p \in CurLayerPaths : p[Len(p)] = c => ~VisibleLink(p)

\* the collection a job's file is named after
JobCollections(j) == {c \in Colls : fbx(c) = j.filepath[Len(j.filepath)]}

\* C3: a collection-mode run creates no job for a hidden collection and puts
\* no object into a job that it holds only through hidden collections.
C3_OnlyVisibleCollectionsExported ==
    (Validated /\ props.export_mode = "COLLECTIONS") =>
        \A i \in 1..Len(last.log) :
            /\ \A c \in JobCollections(last.log[i]) : ~HiddenColl(c)
            /\ \A o \in Range(last.log[i].objects) :
                   \E c \in Colls : o \in Range(members[c]) /\ ~HiddenColl(c)

\* this step is one call of execute
RunStep == runs' = runs + 1 /\ last'.op = "execute"

\* C4: an exporter exception stays inside export_fbx: the job adds no
\* exported-file record, the jobs after it are attempted as they would be
\* had nothing raised, and the reported count is the number of jobs for
\* which export_fbx returned true.
C4_ExporterFailureIsLocal ==
    [][RunStep =>
        /\ last'.export_count = (IF last'.ret = "FINISHED"
                                 THEN StatusCount(last'.log, {"ok"}) ELSE 0)
        /\ Len(exported_files') = StatusCount(last'.log, {"ok"})
        /\ last'.env.denied = {} => JobList(last'.log) = last'.undisturbed
      ]_vars

\* a job raised, a later job succeeded and was counted
C4_Witness ==
    /\ Validated
    /\ last.export_count >= 1
    /\ \E i, j \in 1..Len(last.log) :
          i < j /\ last.log[i].status = "raised" /\ last.log[j].status = "ok"

\* C5: when the parent of the target root does not exist, or the target root
\* cannot be created, the run is cancelled and has changed nothing: no
\* exporter call, no directory, same selection and active object, and an
\* empty exported-file list.
C5_ValidationFailureChangesNothing ==
    [][(RunStep /\ (\/ ~exists(fs, dirname(abspath(last'.dir0)))
                    \/ /\ ~exists(fs, abspath(last'.dir0))
                       /\ Norm(abspath(last'.dir0)) \in last'.env.denied)) =>
        /\ last'.ret = "CANCELLED"
        /\ last'.log = <<>>
        /\ fs' = fs
        /\ selected' = selected
        /\ active' = active
        /\ imode' = imode
        /\ exported_files' = <<>>
      ]_vars

\* a run with a selection and earlier records was cancelled because the
\* target root could not be created
C5_Witness ==
    /\ Ran /\ last.ret = "CANCELLED" /\ ~last.snapshot
    /\ last.env.denied = {Norm(Root)}
    /\ last.before.selected # {}
    /\ last.before.exported_files # <<>>

\* a run was cancelled because the parent of the target root does not exist
C5_WitnessParent ==
    /\ Ran /\ last.ret = "CANCELLED" /\ ~last.snapshot
    /\ ~exists(last.before.fs, dirname(Root))
    /\ last.before.selected # {}

\* C6: after a run the exported-file list holds exactly the records of that
\* run's successful exporter calls, in job order, and nothing older; it is
\* empty after a run cancelled at validation.
C6_ExportedFilesAreThoseOfLastRun ==
    Ran => /\ exported_files = Records(last.log)
           /\ ~last.snapshot => exported_files = <<>>

\* a run that found records of an earlier run left two records of its own,
\* after a job that failed
C6_Witness ==
    /\ Ran
    /\ last.before.exported_files # <<>>
    /\ Len(exported_files) >= 2
    /\ last.log[1].status = "raised"
    /\ \A i \in 1..Len(exported_files) :
          exported_files[i] \notin Range(last.before.exported_files)

\* this step is one call of export_fbx
FbxStep == runs' = runs + 1 /\ last'.op = "export_fbx"

\* C7: export_fbx with an empty object list returns false and changes
\* nothing: no directory is created, the host exporter is not invoked, the
\* selection, the active object and the interaction mode stay as they are,
\* and no exported-file record is appended.
C7_EmptyObjectListIsNoOp ==
    [][(FbxStep /\ last'.objects = <<>>) =>
        /\ last'.ret = FALSE
        /\ fs' = fs
        /\ Invoked(last'.log) = <<>>
        /\ selected' = selected
        /\ active' = active
        /\ imode' = imode
        /\ exported_files' = exported_files
      ]_vars

\* export_fbx was called with no objects, outside object mode, with a
\* selection, for a file in a folder that is missing and could be created
C7_Witness ==
    /\ last.op = "export_fbx"
    /\ last.objects = <<>>
    /\ last.ret = FALSE
    /\ imode # "OBJECT"
    /\ selected # {}
    /\ ~exists(fs, dirname(last.filepath))
    /\ exists(fs, dirname(dirname(last.filepath)))
    /\ last.env.denied = {}

\* this step is one call of ensure_directory_exists
PathStep == runs' = runs + 1 /\ last'.op = "ensure_directory_exists"

\* C8: ensure_directory_exists is idempotent: a call that directly follows a
\* successful call on the same path succeeds with an empty reason and leaves
\* the filesystem as it is; and a call on a directory that exists succeeds.
C8_EnsureDirectoryIdempotent ==
    [][PathStep =>
        /\ (last.op = "ensure_directory_exists" /\ last.ok /\ last.path = last'.path)
              => (last'.ok /\ last'.msg = <<>> /\ fs' = fs)
        /\ exists(fs, last'.path) => (last'.ok /\ last'.msg = <<>> /\ fs' = fs)
      ]_vars

\* a call created a directory, and the call after it on the same path
\* succeeded although os.makedirs would have raised
C8_Witness ==
    /\ last.op = "ensure_directory_exists"
    /\ last.prev.path = last.path
    /\ last.prev.ok /\ last.prev.created
    /\ last.ok /\ last.msg = <<>>
    /\ Norm(last.path) \in last.env.denied
    /\ fs = last.before.fs

\* the top-level collections that hold an allowed, visible object, which
\* are the ones a collection-mode run exports
KeptTopLevel ==
    {c \in gather_top_level_collections :
        allowed_visible(all_objects(c), get_object_types) # <<>>}

\* the child chains that start at collection c
Chains(c) == PathsBelow([d \in AllColls |-> Range(children[d])], <<c>>)

RECURSIVE ChainFolder(_, _)
\* dir/c0/c1/.../ck for the chain <<c0, ..., ck>>
ChainFolder(dir, chain) ==
    IF chain = <<>> THEN dir ELSE ChainFolder(join(dir, Head(chain)), Tail(chain))

\* the folder exists when the run starts, or os.makedirs does not refuse it
Creatable(folder) ==
    exists(last.before.fs, folder) \/ Norm(folder) \notin last.env.denied

\* the jobs of the run whose file is named after collection c
JobsNamed(c) == {i \in 1..Len(last.log) : last.log[i].filepath[Len(last.log[i].filepath)] = fbx(c)}

\* the run issued a job for the last collection of the chain, in the folder
\* of the chain, with the collection's allowed, visible direct members
ChainJobIssued(chain) ==
    \E i \in 1..Len(last.log) :
        /\ last.log[i].filepath = join(ChainFolder(Root, chain), fbx(chain[Len(chain)]))
        /\ last.log[i].objects =
               allowed_visible(members[chain[Len(chain)]], get_object_types)

SeparateChildFolders ==
    /\ props.export_mode = "COLLECTIONS"
    /\ ~props.combine_nested_collections
    /\ props.separate_child_collections

SubtreeObjects(c) ==
    {o \in Objs : /\ objType[o] \in get_object_types
                  /\ o \notin objHide
                  /\ \E d \in {c} \cup Descendants(c) : o \in Range(members[d])}

\* the run issued one job named after c, at <root>/c/c.fbx, with the allowed,
\* visible objects of the subtree of c
OneCombinedJob(c) ==
    /\ Cardinality(JobsNamed(c)) = 1
    /\ \A i \in JobsNamed(c) :
          /\ last.log[i].filepath = join(join(Root, c), fbx(c))
          /\ Range(last.log[i].objects) = SubtreeObjects(c)

\* the directories the run created
Created == fs \ last.before.fs

\* no job is named after collection d and no folder is made for it
NothingFor(d) == JobsNamed(d) = {} /\ \A f \in Created : f[Len(f)] # d

CombineNested ==
    /\ props.export_mode = "COLLECTIONS"
    /\ props.combine_nested_collections

FilteredSelection == {o \in last.before.selected : objType[o] \in get_object_types}

SingleFile ==
    /\ props.export_mode = "SELECTED"
    /\ props.as_single_mesh
    /\ ~props.make_separate_folders

\* the name the single file is to have
SingleFileName ==
    IF last.before.active # None /\ users_collection(last.before.active) # <<>>
    THEN users_collection(last.before.active)[1]
    ELSE "combined_export"

\* C11: with "single mesh" on, "separate folders" off and a non-empty
\* filtered selection, a selection-mode run issues exactly one job: it holds
\* every selected object of an allowed kind, its file is directly in the
\* target root, and it is named after the first collection of the active
\* object, or combined_export when there is none.
C11_SingleFileForSelection ==
    (Validated /\ SingleFile /\ FilteredSelection # {}) =>
        /\ Len(last.log) = 1
        /\ Range(last.log[1].objects) = FilteredSelection
        /\ Len(last.log[1].objects) = Cardinality(FilteredSelection)
        /\ last.log[1].filepath = join(Root, fbx(SingleFileName))

\* a run put the selected objects into one file named after the first of
\* the two collections of the active object
C11_Witness ==
    /\ Validated /\ SingleFile
    /\ last.before.active # None
    /\ Len(users_collection(last.before.active)) >= 2
    /\ Cardinality(FilteredSelection) >= 2
    /\ Len(last.log) = 1
    /\ last.log[1].status = "ok"
    /\ last.log[1].filepath = join(Root, fbx(users_collection(last.before.active)[1]))

\* the place of collection k among the children of collection c
ChildPos(c, k) == CHOOSE i \in 1..Len(children[c]) : children[c][i] = k

\* chain p comes before chain q in a depth-first walk that takes children in
\* child order: p is a proper start of q, or p turns to an earlier child
\* where the two part
ChainBefore(p, q) ==
    \/ Len(p) < Len(q) /\ SubSeq(q, 1, Len(p)) = p
    \/ \E i \in 2..Len(p) :
          /\ i <= Len(q)
          /\ SubSeq(p, 1, i - 1) = SubSeq(q, 1, i - 1)
          /\ ChildPos(p[i - 1], p[i]) < ChildPos(q[i - 1], q[i])

RECURSIVE DepthFirst(_)
\* the chains of S in depth-first order
DepthFirst(S) ==
    IF S = {} THEN <<>>
    ELSE LET first == CHOOSE p \in S : \A q \in S \ {p} : ChainBefore(p, q)
         IN <<first>> \o DepthFirst(S \ {first})

RECURSIVE MembersAlong(_, _)
\* the allowed, visible direct members of the last collection of each chain,
\* chain after chain
MembersAlong(chains, types) ==
    IF chains = <<>> THEN <<>>
    ELSE SelectSeq(members[Head(chains)[Len(Head(chains))]],
                   LAMBDA o : objType[o] \in types /\ o \notin objHide)
         \o MembersAlong(Tail(chains), types)

\* this step is one call of gather_all_objects_recursive
GatherStep == runs' = runs + 1 /\ last'.op = "gather_all_objects_recursive"

\* C12: gather_all_objects_recursive returns the allowed, visible direct
\* members of the collection in member order, then the same for each child
\* collection in child order, depth-first, an object once for every chain
\* that reaches it; called again on the unchanged scene it returns the same
\* sequence.
C12_GatherIsDepthFirstAndStable ==
    [][GatherStep =>
        /\ last'.result =
              MembersAlong(DepthFirst(Chains(last'.collection)), last'.allowed_types)
        /\ (/\ last'.prev.collection = last'.collection
            /\ last'.prev.allowed_types = last'.allowed_types)
              => last'.result = last'.prev.result
      ]_vars

\* the second of two equal calls returned an object twice, between two
\* other objects
C12_Witness ==
    /\ last.op = "gather_all_objects_recursive"
    /\ last.prev.collection = last.collection
    /\ last.prev.allowed_types = last.allowed_types
    /\ \E i, j \in 1..Len(last.result) :
          /\ i + 1 < j
          /\ last.result[i] = last.result[j]
          /\ last.result[i + 1] # last.result[i]
    /\ Len(last.result) >= 4

\* os.makedirs refused folder d during the run, after the validation of the
\* target root
RefusedFolder(d) ==
    /\ Validated
    /\ d \in last.env.denied
    /\ \E i \in 1..Len(last.reports) :
          last.reports[i][1] = "ERROR" /\ last.reports[i][2] = last.env.mkErr

\* the file of job j is in folder d or below it
InOrBelow(j, d) ==
    Len(Norm(j[1])) > Len(d) /\ SubSeq(Norm(j[1]), 1, Len(d)) = d

\* the run called export_fbx for job j
Attempted(j) == \E i \in 1..Len(last.log) : JobList(last.log)[i] = j

\* C13 as stated: when the folder of a collection or an object cannot be
\* created, only the job of that collection or object is dropped: the run
\* goes on and attempts every other job it would have attempted, those of
\* the collection's child collections included.
C13_FolderFailureDropsOneJob ==
    Ran => \A d \in last.env.denied :
        RefusedFolder(d) =>
            /\ last.ret = "FINISHED"
            /\ \A k \in 1..Len(last.undisturbed) :
                  \/ last.undisturbed[k][1] = Append(d, fbx(d[Len(d)]))
                  \/ Attempted(last.undisturbed[k])

\* C13 amended: when the folder of a collection or an object cannot be
\* created, the run goes on and attempts every job it would have attempted
\* whose file is not in that folder or below it; the jobs of the
\* collection's child collections, which are in that folder or below it,
\* are dropped with the collection's own.
C13_FolderFailureDropsTheFolder ==
    Ran => \A d \in last.env.denied :
        RefusedFolder(d) =>
            /\ last.ret = "FINISHED"
            /\ \A k \in 1..Len(last.undisturbed) :
                  \/ InOrBelow(last.undisturbed[k], d)
                  \/ Attempted(last.undisturbed[k])
            /\ \A i \in 1..Len(last.log) : ~InOrBelow(JobList(last.log)[i], d)

\* the folder of a collection was refused; the job of a child collection
\* was dropped with it and a job in another folder succeeded afterwards
C13_Witness ==
    Ran /\ \E d \in last.env.denied :
        /\ RefusedFolder(d)
        /\ \E k \in 1..Len(last.undisturbed) :
              /\ InOrBelow(last.undisturbed[k], d)
              /\ last.undisturbed[k][1] # Append(d, fbx(d[Len(d)]))
              /\ ~Attempted(last.undisturbed[k])
              /\ \E m \in (k + 1)..Len(last.undisturbed) :
                    /\ ~InOrBelow(last.undisturbed[m], d)
                    /\ \E i \in 1..Len(last.log) :
                          /\ JobList(last.log)[i] = last.undisturbed[m]
                          /\ last.log[i].status = "ok"

\* the directories above path
Ancestors(path) == Prefixes(Norm(path)) \ {Norm(path)}

\* C14: for a path that does not exist, on a drive that does where drives
\* apply, check_path_exists answers by the nearest ancestor: true when some
\* ancestor directory exists, and false, with a reason, only when none
\* exists up to the root.
C14_MissingPathJudgedByAncestor ==
    (/\ last.op = "check_path_exists"
     /\ ~exists(fs, last.path)
     /\ platform = "Windows" => exists(fs, <<>>)) =>
        /\ last.ok <=> (\E a \in Ancestors(last.path) : a \in fs)
        /\ ~last.ok => last.msg # <<>>

\* C15: a selection-mode run in which no selected object has an allowed
\* kind is cancelled with a warning and does nothing but create the target
\* root: no exporter call, no other folder, the selection and the active
\* object as they were, and an empty exported-file list.
C15_NothingToExportChangesNothing ==
    (Validated /\ props.export_mode = "SELECTED" /\ FilteredSelection = {}) =>
        /\ last.ret = "CANCELLED"
        /\ last.reports = <<<<"WARNING", "No valid selected objects to export">>>>
        /\ last.log = <<>>
        /\ fs \ last.before.fs \subseteq {Norm(Root)}
        /\ selected = last.before.selected
        /\ active = last.before.active
        /\ imode = last.before.imode
        /\ exported_files = <<>>

\* a run with a selection, none of it of an allowed kind, was cancelled
C15_Witness ==
    /\ Validated /\ props.export_mode = "SELECTED"
    /\ FilteredSelection = {}
    /\ last.before.selected # {}
    /\ last.ret = "CANCELLED"

\* a run with nothing selected, after an earlier run, was cancelled after it
\* had created the target root
C15_WitnessRoot ==
    /\ Validated /\ props.export_mode = "SELECTED"
    /\ FilteredSelection = {}
    /\ last.before.exported_files # <<>>
    /\ fs # last.before.fs
    /\ last.ret = "CANCELLED"

SelectionAsCollections ==
    /\ props.export_mode = "SELECTED"
    /\ props.as_single_mesh
    /\ props.make_separate_folders

\* the filtered selected objects that belong to collection c
SelectedIn(c) == {o \in FilteredSelection : o \in Range(members[c])}

\* every job named after collection c holds the filtered selected objects
\* of c, each once
JobsHoldSelectionOf(c) ==
    \A i \in JobsNamed(c) :
        /\ Range(last.log[i].objects) = SelectedIn(c)
        /\ Len(last.log[i].objects) = Cardinality(SelectedIn(c))

BelowHidden(p) == \E n \in 1..(Len(p) - 1) : ~VisibleLink(SubSeq(p, 1, n))

\* C17: a collection with a visible link of its own directly under the root
\* of the layer hierarchy is in the result of gather_top_level_collections
\* even when its other links lie below hidden collections.
C17_RootLinkHonoredIndependently ==
    (Ran /\ props.export_mode = "COLLECTIONS") =>
        \A c \in Colls :
            (/\ <<c>> \in CurLayerPaths
             /\ VisibleLink(<<c>>)
             /\ \A p \in CurLayerPaths :
                   (Len(p) >= 2 /\ p[Len(p)] = c) => BelowHidden(p))
                => c \in Range(last.top_colls)

\* C18: in one run no two jobs are given the same output file, and the
\* exported-file list holds no two records with the same path.
C18_NoTwoJobsShareAPath ==
    Ran =>
        /\ \A i, j \in 1..Len(last.log) :
               i # j => last.log[i].filepath # last.log[j].filepath
        /\ \A i, j \in 1..Len(exported_files) :
               i # j => exported_files[i].file_path # exported_files[j].file_path

====
